---- MODULE Spec2Model ----
(***************************************************************************)
(* Model of the conductor (src/conductor.go): registration of services,    *)
(* the sequential startup loop of Start, the shutdown path of Stop with    *)
(* its per-service waiter goroutines and WaitGroup, the signal hook, and   *)
(* the services themselves as the environment honouring the three-channel  *)
(* contract (ready, stopped, shutdown; each a channel of capacity 1).      *)
(***************************************************************************)
EXTENDS Integers, Sequences, FiniteSets, TLC

\* ---------------------------------------------------------------- bounds
\* Largest number of services the caller registers before Start.
MaxServices == 2
\* Number of goroutines that call Stop explicitly (besides Start's own
\* abort path and the signal hook).
MaxCallers == 1

\* Variant of ChanCap: the channels are made without a buffer, as the done
\* channel of Stop is.
ChanCapUnbuffered == 0

\* Capacity of the ready, stopped and shutdown channels of a serviceState.
ChanCap == 1

\* ------------------------------------------------------- inputs and ids
\* Names given to Service(name, service).
Names == {"svc"}
\* Implementations of the Service interface: Run returns nil ("ok") or a
\* non-nil error ("failing").
ServiceKinds == {"ok", "failing"}

\* The invocations of Stop: by Start's error/timeout path, by each explicit
\* caller, by the signal hook goroutine.
StartId == 0
Callers == 1..MaxCallers
HookId == MaxCallers + 1
StopIds == 0..(MaxCallers + 1)

VARIABLES
    started,        \* conductor.started
    services,       \* conductor.services: sequence of serviceState
    closed,         \* conductor.shutdown has been closed
    panicked,       \* "none", or the panic that ended the process
    readyCh,        \* per service: number of values buffered in srv.ready
    stoppedCh,      \* per service: number of values buffered in srv.stopped
    shutdownCh,     \* per service: number of contexts buffered in srv.shutdown
    startPc,        \* position of the Start call
    startIdx,       \* index of srv in Start's loop over c.services
    stopPc,         \* per Stop invocation: "idle", "added", "loop", "select", "done"
    stopIdx,        \* per Stop invocation: index of state in its loop
    stopWg,         \* per Stop invocation: len(c.services) given to wg.Add
    stopLen,        \* per Stop invocation: length of the slice it ranges over
    waiters,        \* per Stop invocation: the waiter goroutines spawned so far
    svcState,       \* per service: "new", "failed", "running" or "stopped"
    readySent,      \* per service: the service wrote its ready signal
    sigPending,     \* a SIGTERM/SIGINT is buffered in sigCh
    sigSeen,        \* a signal has been delivered to the process
    hookPc,         \* position of the HookSignals goroutine
    runs,           \* per service: number of invocations of Run
    gotReady,       \* services whose ready signal Start has received
    sends,          \* per service: number of writes to srv.shutdown
    closes,         \* number of executions of close(c.shutdown)
    errAt,          \* index of the service whose Run returned an error, or 0
    timedOutAt      \* index of the service whose start timer fired, or 0

vars == <<started, services, closed, panicked, readyCh, stoppedCh, shutdownCh,
          startPc, startIdx, stopPc, stopIdx, stopWg, stopLen, waiters, svcState,
          readySent,
          sigPending, sigSeen, hookPc, runs, gotReady, sends, closes, errAt,
          timedOutAt>>

conductorVars == <<started, services, closed, panicked>>
chanVars == <<readyCh, stoppedCh, shutdownCh>>
startVars == <<startPc, startIdx, runs, gotReady, errAt, timedOutAt>>
stopVars == <<stopPc, stopIdx, stopWg, stopLen, waiters, sends, closes>>
svcVars == <<svcState, readySent>>
hookVars == <<sigPending, sigSeen, hookPc>>

N == Len(services)
Idx == 1..MaxServices

\* Waiter goroutine states: Unresolved = spawned, has not yet evaluated
\* state.stopped; t in 1..N = blocked receiving from services[t].stopped;
\* Finished = received and called wg.Done().
Unresolved == 0
Finished == -1

\* ------------------------------------------------------------ New (38-52)
Init ==
    /\ started = FALSE
    /\ services = << >>
    /\ closed = FALSE
    /\ panicked = "none"
    /\ readyCh = [i \in Idx |-> 0]
    /\ stoppedCh = [i \in Idx |-> 0]
    /\ shutdownCh = [i \in Idx |-> 0]
    /\ startPc = "idle"
    /\ startIdx = 0
    /\ stopPc = [s \in StopIds |-> "idle"]
    /\ stopIdx = [s \in StopIds |-> 0]
    /\ stopWg = [s \in StopIds |-> 0]
    /\ stopLen = [s \in StopIds |-> 0]
    /\ waiters = [s \in StopIds |-> << >>]
    /\ svcState = [i \in Idx |-> "new"]
    /\ readySent = [i \in Idx |-> FALSE]
    /\ sigPending = FALSE
    /\ sigSeen = FALSE
    /\ hookPc = "wait"
    /\ runs = [i \in Idx |-> 0]
    /\ gotReady = {}
    /\ sends = [i \in Idx |-> 0]
    /\ closes = 0
    /\ errAt = 0
    /\ timedOutAt = 0

Alive == panicked = "none"

\* Variant of Service: the started check is missing.
ServiceNoCheck(name, service) ==
    /\ Alive
    /\ N < MaxServices
    /\ services' = Append(services, [name |-> name, service |-> service])
    /\ UNCHANGED <<started, closed, panicked, chanVars, startVars, stopVars,
                   svcVars, hookVars>>

\* ------------------------------------------------- conductor.Service (55-61)
\* Before Start: appends a serviceState with three fresh channels.
\* After Start has begun: panics and leaves c.services alone.
Service(name, service) ==
    /\ Alive
    /\ IF started
          THEN /\ panicked' = "service"
               /\ UNCHANGED services
          ELSE /\ N < MaxServices
               /\ services' = Append(services, [name |-> name, service |-> service])
               /\ UNCHANGED panicked
    /\ UNCHANGED <<started, closed, chanVars, startVars, stopVars, svcVars, hookVars>>

\* ---------------------------------------------------- conductor.Start (64-91)
\* Variant of StartBegin: the latch is set inside the loop body, so it stays
\* unset when there is no service.
StartBeginLatchInLoop ==
    /\ Alive
    /\ startPc = "idle"
    /\ started' = (N > 0)
    /\ IF N = 0
          THEN startPc' = "done" /\ startIdx' = 0
          ELSE startPc' = "run" /\ startIdx' = 1
    /\ UNCHANGED <<services, closed, panicked, chanVars, runs, gotReady, errAt,
                   timedOutAt, stopVars, svcVars, hookVars>>

\* c.started = true, then the loop head: with no service the loop body never
\* runs and Start returns c.shutdown.
StartBegin ==
    /\ Alive
    /\ startPc = "idle"
    /\ started' = TRUE
    /\ IF N = 0
          THEN startPc' = "done" /\ startIdx' = 0
          ELSE startPc' = "run" /\ startIdx' = 1
    /\ UNCHANGED <<services, closed, panicked, chanVars, runs, gotReady, errAt,
                   timedOutAt, stopVars, svcVars, hookVars>>

\* err := srv.service.Run(srv.ready, srv.stopped, srv.shutdown)  (line 71)
\* A non-nil error leads to c.Stop() and break; nil leads to the select.
RunResult(i) == services[i].service

\* Variant of StartRun with a slip in the loop body: not waiting for the
\* ready signal after Run returned nil.
StartRunNoWait ==
    /\ Alive
    /\ startPc = "run"
    /\ runs' = [runs EXCEPT ![startIdx] = @ + 1]
    /\ IF RunResult(startIdx) = "failing"
          THEN /\ errAt' = startIdx
               /\ startPc' = "abort"
               /\ svcState' = [svcState EXCEPT ![startIdx] = "failed"]
               /\ UNCHANGED startIdx
          ELSE /\ startPc' = IF startIdx < N THEN "run" ELSE "done"
               /\ startIdx' = IF startIdx < N THEN startIdx + 1 ELSE startIdx
               /\ svcState' = [svcState EXCEPT ![startIdx] = "running"]
               /\ UNCHANGED errAt
    /\ UNCHANGED <<conductorVars, chanVars, gotReady, timedOutAt,
                   stopVars, readySent, hookVars>>

StartRun ==
    /\ Alive
    /\ startPc = "run"
    /\ runs' = [runs EXCEPT ![startIdx] = @ + 1]
    /\ IF RunResult(startIdx) = "failing"
          THEN /\ errAt' = startIdx
               /\ startPc' = "abort"
               /\ svcState' = [svcState EXCEPT ![startIdx] = "failed"]
          ELSE /\ startPc' = "select"
               /\ svcState' = [svcState EXCEPT ![startIdx] = "running"]
               /\ UNCHANGED errAt
    /\ UNCHANGED <<conductorVars, chanVars, startIdx, gotReady, timedOutAt,
                   stopVars, readySent, hookVars>>

\* Variants of NextPc: the loop ends one service early; Start calls Stop
\* after the last service became ready.
NextPcShort(i) == IF i + 1 < N THEN "run" ELSE "done"
NextPcStop(i) == IF i < N THEN "run" ELSE "abort"

\* Where the loop goes after service i became ready: the next service, or
\* out of the loop and return c.shutdown.
NextPc(i) == IF i < N THEN "run" ELSE "done"

\* case <-srv.ready: continue  (lines 84-87)
StartReady ==
    /\ Alive
    /\ startPc = "select"
    /\ readyCh[startIdx] > 0
    /\ readyCh' = [readyCh EXCEPT ![startIdx] = @ - 1]
    /\ gotReady' = gotReady \cup {startIdx}
    /\ startPc' = NextPc(startIdx)
    /\ startIdx' = IF startIdx < N THEN startIdx + 1 ELSE startIdx
    /\ UNCHANGED <<conductorVars, stoppedCh, shutdownCh, runs, errAt, timedOutAt,
                   stopVars, svcVars, hookVars>>

\* Variant of StartTimeout: the timeout is logged and the loop goes on.
StartTimeoutContinue ==
    /\ Alive
    /\ startPc = "select"
    /\ timedOutAt' = startIdx
    /\ startPc' = NextPc(startIdx)
    /\ startIdx' = IF startIdx < N THEN startIdx + 1 ELSE startIdx
    /\ UNCHANGED <<conductorVars, chanVars, runs, gotReady, errAt,
                   stopVars, svcVars, hookVars>>

\* Variant of StartTimeout: Start returns without calling Stop.
StartTimeoutNoStop ==
    /\ Alive
    /\ startPc = "select"
    /\ timedOutAt' = startIdx
    /\ startPc' = "done"
    /\ UNCHANGED <<conductorVars, chanVars, startIdx, runs, gotReady, errAt,
                   stopVars, svcVars, hookVars>>

\* case <-time.After(c.startTimeout): c.Stop(); break SRV_LOOP  (lines 79-83)
StartTimeout ==
    /\ Alive
    /\ startPc = "select"
    /\ timedOutAt' = startIdx
    /\ startPc' = "abort"
    /\ UNCHANGED <<conductorVars, chanVars, startIdx, runs, gotReady, errAt,
                   stopVars, svcVars, hookVars>>

\* ----------------------------------------------------- conductor.Stop (94-130)
\* Who may enter Stop as invocation s: Start on its error/timeout path, the
\* hook goroutine after catching a signal, an explicit caller at any time,
\* also before Start (the callers are interchangeable: caller s+1 enters
\* after caller s).
MayEnter(s) ==
    IF s = StartId THEN startPc = "abort"
    ELSE IF s = HookId THEN hookPc = "caught"
    ELSE s = 1 \/ stopPc[s - 1] # "idle"

\* Where Stop stands after the loop head over n services.
LoopEntry(n) == IF n = 0 THEN "select" ELSE "loop"

\* Lines 96-107: the context, wg.Add(len(c.services)), the done channel and
\* the goroutine that waits for the WaitGroup. Once Start has begun
\* c.services no longer changes, and the loop head of line 110 reads the same
\* slice: the step goes on to it. Before Start, Service may append between
\* the read of line 100 and the read of line 110 (unsynchronised), so the
\* loop head is a step of its own, StopRange.
StopBegin(s) ==
    /\ Alive
    /\ stopPc[s] = "idle"
    /\ MayEnter(s)
    /\ stopWg' = [stopWg EXCEPT ![s] = N]
    /\ IF started
          THEN /\ stopLen' = [stopLen EXCEPT ![s] = N]
               /\ stopPc' = [stopPc EXCEPT ![s] = LoopEntry(N)]
               /\ stopIdx' = [stopIdx EXCEPT ![s] = IF N = 0 THEN 0 ELSE 1]
          ELSE /\ stopPc' = [stopPc EXCEPT ![s] = "added"]
               /\ UNCHANGED <<stopLen, stopIdx>>
    /\ startPc' = IF s = StartId THEN "stopping" ELSE startPc
    /\ hookPc' = IF s = HookId THEN "stopping" ELSE hookPc
    /\ UNCHANGED <<conductorVars, chanVars, startIdx, runs, gotReady, errAt,
                   timedOutAt, waiters, sends, closes, svcVars, sigPending, sigSeen>>

\* Line 110, the loop head: range evaluates c.services once.
StopRange(s) ==
    /\ Alive
    /\ stopPc[s] = "added"
    /\ stopLen' = [stopLen EXCEPT ![s] = N]
    /\ stopPc' = [stopPc EXCEPT ![s] = LoopEntry(N)]
    /\ stopIdx' = [stopIdx EXCEPT ![s] = IF N = 0 THEN 0 ELSE 1]
    /\ UNCHANGED <<conductorVars, chanVars, startVars, stopWg, waiters, sends,
                   closes, svcVars, hookVars>>

\* Line 110 overlapping the append of line 59: the two are not synchronised,
\* and a slice header is several words. Besides the slice before or after
\* the append (StopRange), the loop may read a header that is neither, whose
\* elements are not service records: the process crashes.
StopRangeTorn(s, name, service) ==
    /\ Alive
    /\ stopPc[s] = "added"
    /\ ~started
    /\ N < MaxServices
    /\ services' = Append(services, [name |-> name, service |-> service])
    /\ panicked' = "race"
    /\ UNCHANGED <<started, closed, chanVars, startVars, stopVars, svcVars, hookVars>>

\* Variant of StopSend: only a service whose Run returned nil is sent the
\* shutdown request.
StopSendStartedOnly(s, w) ==
    /\ Alive
    /\ stopPc[s] = "loop"
    /\ w \in {stopIdx[s], Unresolved}
    /\ IF svcState[stopIdx[s]] \in {"new", "failed"}
          THEN UNCHANGED <<shutdownCh, sends>>
          ELSE /\ shutdownCh[stopIdx[s]] < ChanCap
               /\ shutdownCh' = [shutdownCh EXCEPT ![stopIdx[s]] = @ + 1]
               /\ sends' = [sends EXCEPT ![stopIdx[s]] = @ + 1]
    /\ waiters' = [waiters EXCEPT ![s] = Append(@, w)]
    /\ IF stopIdx[s] < stopLen[s]
          THEN stopIdx' = [stopIdx EXCEPT ![s] = @ + 1] /\ UNCHANGED stopPc
          ELSE stopPc' = [stopPc EXCEPT ![s] = "select"] /\ UNCHANGED stopIdx
    /\ UNCHANGED <<conductorVars, readyCh, stoppedCh, startVars, stopWg, stopLen,
                   closes, svcVars, hookVars>>

\* Lines 110-116, one iteration: state.shutdown <- ctx blocks while the
\* buffer is full; then the waiter goroutine is spawned. The closure captures
\* the loop variable `state`: the waiter either has already evaluated
\* state.stopped when the loop moves on (it waits for this service), or it
\* has not (Unresolved) and evaluates it later.
StopSend(s, w) ==
    /\ Alive
    /\ stopPc[s] = "loop"
    /\ shutdownCh[stopIdx[s]] < ChanCap
    /\ w \in {stopIdx[s], Unresolved}
    /\ shutdownCh' = [shutdownCh EXCEPT ![stopIdx[s]] = @ + 1]
    /\ sends' = [sends EXCEPT ![stopIdx[s]] = @ + 1]
    /\ waiters' = [waiters EXCEPT ![s] = Append(@, w)]
    /\ IF stopIdx[s] < stopLen[s]
          THEN stopIdx' = [stopIdx EXCEPT ![s] = @ + 1] /\ UNCHANGED stopPc
          ELSE stopPc' = [stopPc EXCEPT ![s] = "select"] /\ UNCHANGED stopIdx
    /\ UNCHANGED <<conductorVars, readyCh, stoppedCh, startVars, stopWg, stopLen,
                   closes, svcVars, hookVars>>

\* The waiter evaluates state.stopped (line 113): `state` holds the service
\* of the iteration the loop is in (the last one once the loop has ended).
WaiterEval(s, j) ==
    /\ Alive
    /\ j \in 1..Len(waiters[s])
    /\ waiters[s][j] = Unresolved
    /\ waiters' = [waiters EXCEPT ![s][j] = stopIdx[s]]
    /\ UNCHANGED <<conductorVars, chanVars, startVars, stopPc, stopIdx, stopWg,
                   stopLen, sends, closes, svcVars, hookVars>>

\* The WaitGroup counter of invocation s: the len(c.services) of line 100
\* minus the calls of wg.Done().
WgCount(s) ==
    stopWg[s] - Cardinality({j \in 1..Len(waiters[s]) : waiters[s][j] = Finished})

\* <-state.stopped; wg.Done()  (lines 113-114). wg.Done() on a counter that
\* is zero panics (negative WaitGroup counter): that takes a loop over more
\* services than line 100 counted.
WaiterRecv(s, j) ==
    /\ Alive
    /\ j \in 1..Len(waiters[s])
    /\ waiters[s][j] \in 1..N
    /\ stoppedCh[waiters[s][j]] > 0
    /\ stoppedCh' = [stoppedCh EXCEPT ![waiters[s][j]] = @ - 1]
    /\ waiters' = [waiters EXCEPT ![s][j] = Finished]
    /\ panicked' = IF WgCount(s) = 0 THEN "waitgroup" ELSE panicked
    /\ UNCHANGED <<started, services, closed, readyCh, shutdownCh, startVars,
                   stopPc, stopIdx, stopWg, stopLen, sends, closes, svcVars,
                   hookVars>>

\* Lines 104-107 and 119-122: wg.Wait() returns at counter zero, done <- true
\* meets case <-done, close(c.shutdown), return. Closing a closed channel
\* panics.
StopClose(s) ==
    /\ Alive
    /\ stopPc[s] = "select"
    /\ WgCount(s) = 0
    /\ closes' = closes + 1
    /\ IF closed
          THEN panicked' = "close" /\ UNCHANGED <<closed, stopPc, startPc, hookPc>>
          ELSE /\ closed' = TRUE
               /\ stopPc' = [stopPc EXCEPT ![s] = "done"]
               /\ startPc' = IF s = StartId THEN "done" ELSE startPc
               /\ hookPc' = IF s = HookId THEN "exit" ELSE hookPc
               /\ UNCHANGED panicked
    /\ UNCHANGED <<started, services, chanVars, startIdx, runs, gotReady, errAt,
                   timedOutAt, stopIdx, stopWg, stopLen, waiters, sends, svcVars,
                   sigPending, sigSeen>>

\* ------------------------------------------------------ HookSignals (176-191)
\* The operating system delivers SIGTERM or SIGINT into sigCh (capacity 1),
\* registered with signal.Notify when New applies the option: at any time,
\* also before Start.
Signal ==
    /\ Alive
    /\ ~sigSeen
    /\ sigSeen' = TRUE
    /\ sigPending' = TRUE
    /\ UNCHANGED <<conductorVars, chanVars, startVars, stopVars, svcVars, hookPc>>

\* case sig := <-sigCh: c.Stop(); return
HookCatch ==
    /\ Alive
    /\ hookPc = "wait"
    /\ sigPending
    /\ sigPending' = FALSE
    /\ hookPc' = "caught"
    /\ UNCHANGED <<conductorVars, chanVars, startVars, stopVars, svcVars, sigSeen>>

\* case <-c.shutdown: return
HookExit ==
    /\ Alive
    /\ hookPc = "wait"
    /\ closed
    /\ hookPc' = "exit"
    /\ UNCHANGED <<conductorVars, chanVars, startVars, stopVars, svcVars,
                   sigPending, sigSeen>>

\* ------------------------------------- the services (Service contract, 15-17)
\* A service whose Run returned nil writes its ready signal once.
SvcReady(i) ==
    /\ Alive
    /\ i \in 1..N
    /\ svcState[i] = "running"
    /\ ~readySent[i]
    /\ readyCh[i] < ChanCap
    /\ readyCh' = [readyCh EXCEPT ![i] = @ + 1]
    /\ readySent' = [readySent EXCEPT ![i] = TRUE]
    /\ UNCHANGED <<conductorVars, stoppedCh, shutdownCh, startVars, stopVars,
                   svcState, hookVars>>

\* A running service receives the shutdown request and answers it by writing
\* its stopped signal once.
SvcShutdown(i) ==
    /\ Alive
    /\ i \in 1..N
    /\ svcState[i] = "running"
    /\ shutdownCh[i] > 0
    /\ stoppedCh[i] < ChanCap
    /\ shutdownCh' = [shutdownCh EXCEPT ![i] = @ - 1]
    /\ stoppedCh' = [stoppedCh EXCEPT ![i] = @ + 1]
    /\ svcState' = [svcState EXCEPT ![i] = "stopped"]
    /\ UNCHANGED <<conductorVars, readyCh, startVars, stopVars,
                   readySent, hookVars>>

\* ------------------------------------------------------------ specification
Next ==
    \/ \E name \in Names, service \in ServiceKinds : Service(name, service)
    \/ StartBegin
    \/ StartRun
    \/ StartReady
    \/ StartTimeout
    \/ \E s \in StopIds : StopBegin(s)
    \/ \E s \in StopIds : StopRange(s)
    \/ \E s \in StopIds, name \in Names, service \in ServiceKinds :
           StopRangeTorn(s, name, service)
    \/ \E s \in StopIds, w \in 0..MaxServices : StopSend(s, w)
    \/ \E s \in StopIds, j \in Idx : WaiterEval(s, j)
    \/ \E s \in StopIds, j \in Idx : WaiterRecv(s, j)
    \/ \E s \in StopIds : StopClose(s)
    \/ Signal
    \/ HookCatch
    \/ HookExit
    \/ \E i \in Idx : SvcReady(i)
    \/ \E i \in Idx : SvcShutdown(i)

Spec == Init /\ [][Next]_vars

TypeOK ==
    /\ started \in BOOLEAN
    /\ N <= MaxServices
    /\ \A i \in Idx : svcState[i] \in {"new", "failed", "running", "stopped"}
    /\ closed \in BOOLEAN
    /\ panicked \in {"none", "close", "service", "waitgroup", "race"}
    /\ \A i \in Idx : readyCh[i] \in 0..ChanCap /\ stoppedCh[i] \in 0..ChanCap
                      /\ shutdownCh[i] \in 0..ChanCap
    /\ startPc \in {"idle", "run", "select", "abort", "stopping", "done"}
    /\ \A s \in StopIds : stopPc[s] \in {"idle", "added", "loop", "select", "done"}
    /\ \A s \in StopIds : stopWg[s] <= stopLen[s] \/ stopPc[s] = "added"

\* ----------------------------------------------------------------- fairness
\* Every goroutine that can take a step eventually takes one: Start's loop
\* (the select proceeds on the ready signal or on the timer), each Stop
\* invocation once entered, its waiters, the hook goroutine, and the services,
\* which honour their contract. Registration, the explicit callers' decision
\* to call Stop and the arrival of a signal are left to the environment.
Fairness ==
    /\ WF_vars(StartRun)
    /\ WF_vars(StartReady \/ StartTimeout)
    /\ WF_vars(StopBegin(StartId))
    /\ WF_vars(StopBegin(HookId))
    /\ \A s \in StopIds : WF_vars(StopRange(s))
    /\ \A s \in StopIds : WF_vars(\E w \in 0..MaxServices : StopSend(s, w))
    /\ \A s \in StopIds : WF_vars(StopClose(s))
    /\ \A s \in StopIds, j \in Idx : WF_vars(WaiterEval(s, j))
    /\ \A s \in StopIds, j \in Idx : WF_vars(WaiterRecv(s, j))
    /\ WF_vars(HookCatch \/ HookExit)
    /\ \A i \in Idx : WF_vars(SvcReady(i))
    /\ \A i \in Idx : WF_vars(SvcShutdown(i))

FairSpec == Init /\ [][Next]_vars /\ Fairness

\* The conductor left alone: no explicit caller of Stop and no signal, so
\* that the only Stop is the one Start invokes on an error or a timeout.
NextAlone ==
    \/ \E name \in Names, service \in ServiceKinds : Service(name, service)
    \/ StartBegin
    \/ StartRun
    \/ StartReady
    \/ StartTimeout
    \/ StopBegin(StartId)
    \/ \E w \in 0..MaxServices : StopSend(StartId, w)
    \/ \E j \in Idx : WaiterEval(StartId, j)
    \/ \E j \in Idx : WaiterRecv(StartId, j)
    \/ StopClose(StartId)
    \/ HookExit
    \/ \E i \in Idx : SvcReady(i)
    \/ \E i \in Idx : SvcShutdown(i)

AloneSpec == Init /\ [][NextAlone]_vars /\ Fairness

\* ------------------------------------------------------------------- claims
\* Stop invocation s has finished its loop over c.services (every send done).
PastLoop(s) == stopPc[s] \in {"select", "done"}
\* No Stop other than the one of Start's own abort path has been invoked.
OnlyStartStops == \A s \in StopIds \ {StartId} : stopPc[s] = "idle"
\* No Stop at all has been invoked.
NoStop == \A s \in StopIds : stopPc[s] = "idle"

\* C1: Run of the i-th service is invoked only after the conductor received
\* the ready signal of the (i-1)-th; Run is never invoked out of registration
\* order, and never twice.
C1_StartupOrder ==
    \A i \in 1..N :
        runs[i] > 0 =>
            /\ \A j \in 1..(i - 1) : runs[j] > 0 /\ j \in gotReady
            /\ runs[i] = 1

C1_Witness ==
    /\ N = 2
    /\ runs[2] = 1
    /\ 1 \in gotReady

\* C2: with no Stop invoked from outside, when every Run returned nil and
\* every ready signal arrived before its timer, the Start call that has
\* returned invoked Run on every service exactly once and no shutdown request
\* was written; and a Start call that has begun ends: it returns, or else an
\* error or a timeout occurred (or a late Service call panicked).
C2_ReturnedClean ==
    (startPc = "done" /\ errAt = 0 /\ timedOutAt = 0 /\ NoStop) =>
        /\ \A i \in 1..N : runs[i] = 1 /\ sends[i] = 0 /\ i \in gotReady
        /\ ~closed

C2_StartAllOk ==
    /\ []C2_ReturnedClean
    /\ (started ~> (startPc = "done" \/ errAt # 0 \/ timedOutAt # 0 \/ ~Alive))

C2_Witness ==
    /\ N = 2
    /\ startPc = "done"
    /\ errAt = 0 /\ timedOutAt = 0
    /\ NoStop
    /\ runs[1] = 1 /\ runs[2] = 1

\* C3: the completion signal is closed only if some Stop invocation ran up
\* to its close; Start invokes Stop only on an error or a timeout, so a Start
\* in which every service became ready did not close it.
C3_ClosedOnlyByStop ==
    /\ closed => \E s \in StopIds : stopPc[s] = "done"
    /\ closed <=> closes > 0
    /\ (errAt = 0 /\ timedOutAt = 0) => stopPc[StartId] = "idle"

C3_Witness ==
    /\ N = 2
    /\ gotReady = {1, 2}
    /\ startPc = "done"
    /\ stopPc[StartId] = "idle"
    /\ stopPc[1] = "done"
    /\ closed

\* C4: when Run of service k returned an error, Run is never invoked on
\* services k+1..N, and each of services 1..k-1 receives exactly one shutdown
\* request: never more than one is written to its channel, and one has been
\* written once Start's Stop is through its loop.
C4_ErrorAborts ==
    \A k \in 1..N :
        errAt = k =>
            /\ \A j \in (k + 1)..N : runs[j] = 0
            /\ \A j \in 1..(k - 1) :
                   /\ sends[j] <= 1
                   /\ PastLoop(StartId) => sends[j] = 1

\* C5 as stated: when a service's Run returned an error, nothing is ever
\* written to that service's shutdownRequest channel.
C5_FailingNeverWritten ==
    \A k \in 1..N : errAt = k => sends[k] = 0

\* C5 amended: when Run of service k returned an error, Start's Stop, once
\* through its loop, has written a shutdown request to the failing service's
\* channel too (exactly one when no other Stop was invoked).
C5_FailingIsWritten ==
    \A k \in 1..N :
        (errAt = k /\ PastLoop(StartId)) =>
            /\ sends[k] >= 1
            /\ OnlyStartStops => sends[k] = 1 /\ shutdownCh[k] = 1

C5_Witness ==
    /\ N = 2
    /\ errAt = 2
    /\ PastLoop(StartId)
    /\ OnlyStartStops
    /\ sends[2] = 1
    /\ shutdownCh[2] = 1

\* C6: when Run of service k returned an error and every service that was
\* started answers its shutdown request, the completion signal is eventually
\* closed and Start eventually returns (unless a late Service call panicked).
C6_ErrorShutdownCompletes ==
    \A k \in Idx :
        (errAt = k) ~> ((closed /\ startPc = "done") \/ panicked = "service")

\* C7: when the start timer of service k fired, Start is on its way through
\* Stop (it returns only after Stop did), Run is never invoked on services
\* k+1..N, and Start's Stop, once through its loop, has sent one request to
\* every service: each of services 1..k-1 has been sent at least one, and
\* exactly one when no other Stop was invoked.
C7_TimeoutAborts ==
    \A k \in 1..N :
        timedOutAt = k =>
            /\ errAt = 0
            /\ \A j \in (k + 1)..N : runs[j] = 0
            /\ startPc \in {"abort", "stopping", "done"}
            /\ startPc = "done" => stopPc[StartId] = "done"
            /\ startPc = "stopping" => stopPc[StartId] \in {"loop", "select"}
            /\ PastLoop(StartId) =>
                   /\ Len(waiters[StartId]) = N
                   /\ \A j \in 1..(k - 1) :
                          /\ sends[j] >= 1
                          /\ OnlyStartStops => sends[j] = 1

C7_Witness ==
    /\ N = 2
    /\ timedOutAt = 2
    /\ PastLoop(StartId)
    /\ OnlyStartStops
    /\ sends[1] = 1
    /\ svcState[1] = "stopped"

\* C8: over any number of Stop invocations the completion signal is closed
\* at most once: no execution closes the closed channel and panics.
C8_ClosedAtMostOnce ==
    /\ closes <= 1
    /\ panicked # "close"

\* Two Stop invocations, by the explicit caller and by the hook, have both
\* been entered with every service in their count and in their loop and have
\* sent nothing yet, after a Start in which every one of at least one service
\* became ready.
TwoStopsAfterStart ==
    /\ Alive
    /\ N >= 1
    /\ startPc = "done" /\ errAt = 0 /\ timedOutAt = 0
    /\ stopPc[1] = "loop" /\ stopIdx[1] = 1 /\ waiters[1] = << >>
    /\ stopPc[HookId] = "loop" /\ stopIdx[HookId] = 1 /\ waiters[HookId] = << >>
    /\ \A s \in {1, HookId} : stopWg[s] = N /\ stopLen[s] = N
    /\ \A s \in StopIds \ {1, HookId} : stopPc[s] = "idle"
    /\ \A i \in 1..N : svcState[i] = "running" /\ sends[i] = 0

\* C9: two concurrent Stop invocations after a successful Start both
\* eventually return, every service answering its shutdown request once
\* (unless a late Service call panicked).
C9_BothStopsReturn ==
    TwoStopsAfterStart ~>
        ((stopPc[1] = "done" /\ stopPc[HookId] = "done") \/ panicked = "service")

\* C10: the conductor writes to each service's shutdownRequest channel at
\* most once, whatever the number of Stop invocations.
C10_OneRequestPerService ==
    \A i \in 1..N : sends[i] <= 1

\* C11: the completion signal is closed, and a Stop invocation returns, only
\* after every registered service has written its stopped signal: at the step
\* that closes the signal (the step at which that Stop returns) every service
\* registered by then has stopped.
C11_ClosedAfterAllStopped ==
    [][(~closed /\ closed') => \A i \in 1..N : svcState[i] = "stopped"]_vars

\* The explicit caller's Stop has been entered with every service in its
\* count and in its loop and has sent nothing yet, no other Stop has been
\* invoked, after a Start in which every service became ready.
OneStopAfterStart ==
    /\ Alive
    /\ startPc = "done" /\ errAt = 0 /\ timedOutAt = 0
    /\ stopPc[1] \in {"loop", "select"} /\ waiters[1] = << >>
    /\ stopWg[1] = N /\ stopLen[1] = N
    /\ \A s \in StopIds \ {1} : stopPc[s] = "idle"

\* C12: after a Start in which every service became ready, a single Stop
\* invocation eventually returns and closes the completion signal, every
\* service answering its shutdown request once (unless another Stop is
\* invoked meanwhile or a late Service call panics).
C12_SingleStopReturns ==
    OneStopAfterStart ~>
        \/ stopPc[1] = "done" /\ closed
        \/ \E s \in StopIds \ {1} : stopPc[s] # "idle"
        \/ panicked = "service"

\* C13: every call of Service made after Start has begun panics and leaves
\* the list of services unchanged, whatever the number of services already
\* registered.
C13_LateServicePanics ==
    [][(startPc # "idle" /\ \E name \in Names, service \in ServiceKinds :
                               Service(name, service))
          => (panicked' = "service" /\ services' = services)]_vars

C13_Witness ==
    /\ panicked = "service"
    /\ started
    /\ N = 2

\* C14: the hook goroutine never takes the signal case, which calls Stop,
\* when the completion signal is already closed.
C14_HookIgnoresSignalAfterClose ==
    [][(hookPc = "wait" /\ hookPc' = "caught") => ~closed]_vars

\* Stop invocation s is the only one that has been invoked.
OnlyStop(s) ==
    /\ stopPc[s] # "idle"
    /\ \A t \in StopIds \ {s} : stopPc[t] = "idle"

\* A single Stop invocation is never blocked on a send and, once through its
\* loop, has written one shutdown request to each service that was registered
\* when it read the list for its loop, and none to a service registered
\* later.
SingleStopDelivers ==
    \A s \in StopIds :
        OnlyStop(s) =>
            /\ stopPc[s] = "loop" =>
                   /\ shutdownCh[stopIdx[s]] < ChanCap
                   /\ \A i \in 1..N : sends[i] = IF i < stopIdx[s] THEN 1 ELSE 0
            /\ PastLoop(s) =>
                   \A i \in 1..N : sends[i] = IF i <= stopLen[s] THEN 1 ELSE 0

\* A Stop invoked once Start has begun reads the whole list of registered
\* services for its loop.
StopAfterStartReadsAll ==
    \A s \in StopIds :
        (started /\ stopPc[s] = "idle" /\ stopPc'[s] # "idle") =>
            (stopLen'[s] = N /\ stopPc'[s] = LoopEntry(N))

\* C15: a single Stop invocation delivers the shutdown request, without ever
\* blocking, to every service registered when it runs, that is when it reads
\* the list of services for its loop (also to those whose Run was never
\* invoked or returned an error): to every registered service when it is
\* invoked once Start has begun.
C15_SingleStopDeliversToAll ==
    /\ []SingleStopDelivers
    /\ [][StopAfterStartReadsAll]_vars

C15_Witness ==
    /\ N = 2
    /\ OnlyStop(StartId)
    /\ PastLoop(StartId)
    /\ svcState[1] = "failed" /\ svcState[2] = "new"
    /\ shutdownCh[1] = 1 /\ shutdownCh[2] = 1
    /\ sends[1] = 1 /\ sends[2] = 1

\* C16: when Start has returned, the conductor has received the ready signal
\* of every registered service or the completion signal is closed.
C16_StartReturnsReadyOrClosed ==
    startPc = "done" => (gotReady = 1..N \/ closed)

C16_Witness ==
    /\ N = 2
    /\ startPc = "done"
    /\ timedOutAt = 2
    /\ gotReady = {1}
    /\ closed

\* The explicit caller's Stop is under way, with every service in its count
\* and in its loop, when Start, after an error or a timeout, is about to
\* invoke Stop itself; the hook has not invoked Stop.
ExternalStopDuringAbort ==
    /\ Alive
    /\ startPc = "abort"
    /\ stopPc[1] \in {"loop", "select"}
    /\ stopWg[1] = N /\ stopLen[1] = N
    /\ \A s \in StopIds \ {StartId, 1} : stopPc[s] = "idle"

\* C17: an external Stop concurrent with a Start that aborts: both Stop
\* invocations and Start eventually return and nothing panics, every service
\* that was run answering a shutdown request once (unless a further Stop is
\* invoked or a late Service call panics).
C17_ConcurrentAbortReturns ==
    ExternalStopDuringAbort ~>
        \/ /\ stopPc[1] = "done" /\ stopPc[StartId] = "done"
           /\ startPc = "done" /\ Alive
        \/ \E s \in StopIds \ {StartId, 1} : stopPc[s] # "idle"
        \/ panicked = "service"

\* C18 as stated: once any Stop invocation has begun, Run is invoked on no
\* further service.
C18_NoRunAfterAnyStop ==
    [][(\E s \in StopIds : stopPc[s] # "idle") => runs' = runs]_vars

\* C18 amended: once Start's own abort path has begun (a Run error or a start
\* timeout, upon which Start invokes Stop), Run is invoked on no further
\* service.
C18_NoRunAfterAbort ==
    [][(errAt # 0 \/ timedOutAt # 0 \/ stopPc[StartId] # "idle")
          => runs' = runs]_vars

C18_Witness ==
    /\ N = 2
    /\ timedOutAt = 1
    /\ stopPc[StartId] = "select"
    /\ stopPc[1] # "idle"
    /\ runs[1] = 1 /\ runs[2] = 0

\* C19: started is a one-way latch, and from the moment it is set the
\* sequence of services never changes.
C19_LatchAndFrozenServices ==
    [][started => (started' /\ services' = services)]_vars

C19_Witness ==
    /\ started
    /\ N = 2
    /\ stopPc[1] = "done"
    /\ closed
====
